---- MODULE Spec2Model ----
(***************************************************************************)
(* Model of app/services/server_manager.py: the process-wide dictionary    *)
(* _running_servers, the child processes it refers to, the instance        *)
(* directories under the servers root, and the request threads that run    *)
(* start_server, stop_server, get_server_status, create_server and         *)
(* delete_server concurrently.  The module has no lock, so every read or   *)
(* write of the dictionary, of a process or of the filesystem is a step    *)
(* of its own that other threads may interleave with.                      *)
(***************************************************************************)
EXTENDS Integers, Sequences, FiniteSets, TLC

\* ------------------------------------------------------------------ bounds
NumThreads == 2
NumIds == 1
MaxSpawn == 2
MaxNameLen == 3
MaxLines == 2

Threads == 1..NumThreads
Ids == 1..NumIds
Pids == 1..MaxSpawn
Alphabet == {"a", ".", "/"}
Names == UNION {[1..n -> Alphabet] : n \in 1..MaxNameLen}

\* archives present in the templates root, and the ones that ship the
\* executable named by SERVER_EXECUTABLE_NAME
TemplateArchives == {<<"a">>, <<"a", "a">>}
ArchivesWithExecutable == {<<"a">>}
\* the archives that ship a conf.json, whose content is "tmpl"
ArchivesWithConfig == {<<"a">>}

\* what a console.log can hold, and the line counts asked of get_server_logs
LogContents == UNION {[1..n -> {"x", "y"}] : n \in 0..MaxLines}
LineCounts == 0..(MaxLines + 1)

\* the payloads of update_server_config: two dictionaries and a non-dictionary
Configs == {"c1", "c2"}
Payloads == Configs \cup {"notdict"}
\* conf.json after a part of the serialised payload has reached the disk
Partial(c) == IF c = "c1" THEN "c1-part" ELSE "c2-part"

VARIABLES registry, proc, owner, dir, th

vars == <<registry, proc, owner, dir, th>>

\* ------------------------------------------------------------ pure helpers
\* Python's `sub in name` on strings
Contains(name, sub) ==
    \E i \in 1..Len(name) :
        i + Len(sub) - 1 <= Len(name) /\ SubSeq(name, i, i + Len(sub) - 1) = sub

\* the name check with the test for "/" left out
InvalidTemplateName_DotsOnly(name) ==
    Contains(name, <<".", ".">>)

\* the check of create_server on the template name
InvalidTemplateName(name) ==
    Contains(name, <<".", ".">>) \/ Contains(name, <<"/">>)

\* the name split at "/" (os.sep on the Linux host of this daemon)
RECURSIVE Split(_)
Split(name) ==
    IF \A i \in 1..Len(name) : name[i] # "/"
    THEN <<name>>
    ELSE LET k == CHOOSE i \in 1..Len(name) :
                     name[i] = "/" /\ \A j \in 1..(i - 1) : name[j] # "/"
         IN <<SubSeq(name, 1, k - 1)>> \o Split(SubSeq(name, k + 1, Len(name)))

\* os.path.isfile(os.path.join(templates_path, name)) on a templates root that
\* holds TemplateArchives and no subdirectory: an absolute name leaves the root,
\* "" and "." segments resolve in place, and the last segment must name an
\* archive (anything after a file's name asks for a directory)
TemplateIsFile(name) ==
    LET segs == Split(name)
    IN /\ segs[1] # <<>>
       /\ segs[Len(segs)] \in TemplateArchives
       /\ \A k \in 1..(Len(segs) - 1) : segs[k] \in {<<>>, <<".">>}

\* an instance directory: the archive it was extracted from, console.log and
\* its lines, conf.json ("none" when absent) and the threads that hold it
\* open for writing
NoDir == [exists |-> FALSE, tmpl |-> <<>>, full |-> FALSE, log |-> FALSE,
          lines |-> <<>>, conf |-> "none", open |-> {}]

\* os.path.isfile(executable_path)
ExecutableExists(d) == d.exists /\ d.full /\ d.tmpl \in ArchivesWithExecutable

\* Popen.poll(): a child that has exited is waited for, after which its pid
\* is gone from the process table
Reap(p) == [proc EXCEPT ![p] = IF @ = "exited" THEN "reaped" ELSE @]

\* a request thread: its position in the handler, the handler's arguments and
\* locals, the response; fresh and follows record what held of the id when
\* the call was made (for stop, up to the end of its liveness check); n, out
\* and cfg are the line count and result of get_server_logs and the payload of
\* update_server_config
Idle == [pc |-> "idle", op |-> "none", id |-> 0, h |-> 0, res |-> "none",
         name |-> <<>>, fresh |-> FALSE, wasRunning |-> FALSE, follows |-> FALSE,
         n |-> 0, out |-> <<>>, cfg |-> "none"]

Goto(t, pc) == th' = [th EXCEPT ![t].pc = pc]
Finish(t, res) == th' = [th EXCEPT ![t].pc = "done", ![t].res = res]

\* the directory of i is the complete product of a create(i, name)
ProducedBy(i, name) == dir[i].exists /\ dir[i].full /\ dir[i].tmpl = name

\* the Registry holds a handle for i whose process the OS reports alive
LiveEntry(i) == registry[i] # 0 /\ proc[registry[i]] = "running"

Spawned(i) == {p \in Pids : proc[p] # "none" /\ owner[p] = i}
LiveProcs(i) == {p \in Pids : proc[p] = "running" /\ owner[p] = i}
PendingSpawns ==
    {t \in Threads : th[t].pc \in {"s_in", "s_poll", "s_dirs", "s_spawn"}}

\* -------------------------------------------------------------------- Init
Init ==
    /\ registry = [i \in Ids |-> 0]
    /\ proc = [p \in Pids |-> "none"]
    /\ owner = [p \in Pids |-> 0]
    /\ dir = [i \in Ids |-> NoDir]
    /\ th = [t \in Threads |-> Idle]

\* ------------------------------------------------------------ start_server
StartCall(t, i) ==
    /\ th[t].pc = "idle"
    /\ Cardinality({p \in Pids : proc[p] # "none"}) + Cardinality(PendingSpawns) < MaxSpawn
    /\ th' = [th EXCEPT ![t] = [Idle EXCEPT !.pc = "s_in", !.op = "start", !.id = i,
                                            !.fresh = (Spawned(i) = {} /\ ExecutableExists(dir[i]))]]
    /\ UNCHANGED <<registry, proc, owner, dir>>

\* line 24, `server_id in _running_servers`
StartCheckIn(t) ==
    /\ th[t].pc = "s_in"
    /\ IF registry[th[t].id] = 0 THEN Goto(t, "s_dirs") ELSE Goto(t, "s_poll")
    /\ UNCHANGED <<registry, proc, owner, dir>>

\* line 24 without the poll: an entry of any kind refuses the start
StartPoll_EntryRefuses(t) ==
    /\ th[t].pc = "s_poll"
    /\ IF registry[th[t].id] = 0 THEN Finish(t, "KeyError") ELSE Finish(t, "Conflict")
    /\ UNCHANGED <<registry, proc, owner, dir>>

\* line 24, `_running_servers[server_id].poll() is None`; follows records
\* that the start went on past the entry of a process that had exited
StartPoll(t) ==
    /\ th[t].pc = "s_poll"
    /\ LET p == registry[th[t].id] IN
       IF p = 0
       THEN Finish(t, "KeyError") /\ UNCHANGED proc
       ELSE /\ proc' = Reap(p)
            /\ IF proc[p] = "running"
               THEN Finish(t, "Conflict")
               ELSE th' = [th EXCEPT ![t].pc = "s_dirs", ![t].follows = TRUE]
    /\ UNCHANGED <<registry, owner, dir>>

\* lines 27-34
StartDirs(t) ==
    /\ th[t].pc = "s_dirs"
    /\ IF ExecutableExists(dir[th[t].id]) THEN Goto(t, "s_spawn") ELSE Finish(t, "NotFound")
    /\ UNCHANGED <<registry, proc, owner, dir>>

\* lines 37-46: open(log_path, "w") and subprocess.Popen
StartSpawn(t) ==
    /\ th[t].pc = "s_spawn"
    /\ LET i == th[t].id IN
       IF ~dir[i].exists
       THEN Finish(t, "NotFound") /\ UNCHANGED <<proc, owner, dir>>
       ELSE /\ dir' = [dir EXCEPT ![i].log = TRUE, ![i].lines = <<>>]
            /\ IF ~ExecutableExists(dir[i])
               THEN Finish(t, "NotFound") /\ UNCHANGED <<proc, owner>>
               ELSE LET p == CHOOSE q \in Pids :
                                 proc[q] = "none" /\ \A r \in 1..(q - 1) : proc[r] # "none"
                    IN /\ proc' = [proc EXCEPT ![p] = "running"]
                       /\ owner' = [owner EXCEPT ![p] = i]
                       /\ th' = [th EXCEPT ![t].pc = "s_reg", ![t].h = p]
    /\ UNCHANGED registry

\* lines 48-49
StartRegister(t) ==
    /\ th[t].pc = "s_reg"
    /\ registry' = [registry EXCEPT ![th[t].id] = th[t].h]
    /\ Finish(t, "started")
    /\ UNCHANGED <<proc, owner, dir>>

\* ------------------------------------------------------------- stop_server
StopCall(t, i) ==
    /\ th[t].pc = "idle"
    /\ th' = [th EXCEPT ![t] = [Idle EXCEPT !.pc = "p_in", !.op = "stop", !.id = i,
                                            !.fresh = ~LiveEntry(i)]]
    /\ UNCHANGED <<registry, proc, owner, dir>>

\* line 53, `server_id not in _running_servers`; also entered from delete_server
StopCheckIn(t) ==
    /\ th[t].pc = "p_in"
    /\ IF registry[th[t].id] = 0
       THEN Finish(t, "NotRunning")
       ELSE th' = [th EXCEPT ![t].pc = "p_poll", ![t].fresh = @ /\ ~LiveEntry(th[t].id)]
    /\ UNCHANGED <<registry, proc, owner, dir>>

\* line 53, `_running_servers[server_id].poll() is not None`
StopPoll(t) ==
    /\ th[t].pc = "p_poll"
    /\ LET p == registry[th[t].id] IN
       IF p = 0
       THEN Finish(t, "KeyError") /\ UNCHANGED proc
       ELSE /\ proc' = Reap(p)
            /\ IF proc[p] = "running" THEN Goto(t, "p_term") ELSE Finish(t, "NotRunning")
    /\ UNCHANGED <<registry, owner, dir>>

\* lines 56-57: the handle is read again and sent SIGTERM
StopTerminate(t) ==
    /\ th[t].pc = "p_term"
    /\ LET p == registry[th[t].id] IN
       IF p = 0
       THEN Finish(t, "KeyError")
       ELSE th' = [th EXCEPT ![t].pc = "p_wait", ![t].h = p]
    /\ UNCHANGED <<registry, proc, owner, dir>>

\* line 58, process.wait(timeout=10) returns: the child has exited
StopWait(t) ==
    /\ th[t].pc = "p_wait"
    /\ proc[th[t].h] # "running"
    /\ proc' = Reap(th[t].h)
    /\ Goto(t, "p_del")
    /\ UNCHANGED <<registry, owner, dir>>

\* line 58, process.wait(timeout=10) raises TimeoutExpired: the child is
\* still running when the ten seconds are over; nothing follows the wait
StopWaitTimeout(t) ==
    /\ th[t].pc = "p_wait"
    /\ proc[th[t].h] = "running"
    /\ Finish(t, "TimeoutExpired")
    /\ UNCHANGED <<registry, proc, owner, dir>>

\* lines 60-61; in delete_server, line 150 returns to line 152
StopDelete(t) ==
    /\ th[t].pc = "p_del"
    /\ LET i == th[t].id IN
       IF registry[i] = 0
       THEN Finish(t, "KeyError") /\ UNCHANGED registry
       ELSE /\ registry' = [registry EXCEPT ![i] = 0]
            /\ IF th[t].op = "delete" THEN Goto(t, "d_rm") ELSE Finish(t, "stopped")
    /\ UNCHANGED <<proc, owner, dir>>

\* ------------------------------------------------------- get_server_status
StatusCall(t, i) ==
    /\ th[t].pc = "idle"
    /\ th' = [th EXCEPT ![t] = [Idle EXCEPT !.pc = "u_in", !.op = "status", !.id = i]]
    /\ UNCHANGED <<registry, proc, owner, dir>>

\* line 65, `server_id not in _running_servers`
StatusCheckIn(t) ==
    /\ th[t].pc = "u_in"
    /\ IF registry[th[t].id] = 0 THEN Finish(t, "stopped") ELSE Goto(t, "u_poll")
    /\ UNCHANGED <<registry, proc, owner, dir>>

\* lines 65-66, `_running_servers[server_id].poll() is not None`
StatusPoll(t) ==
    /\ th[t].pc = "u_poll"
    /\ LET p == registry[th[t].id] IN
       IF p = 0
       THEN Finish(t, "KeyError") /\ UNCHANGED proc
       ELSE /\ proc' = Reap(p)
            /\ IF proc[p] = "running" THEN Goto(t, "u_sample") ELSE Finish(t, "stopped")
    /\ UNCHANGED <<registry, owner, dir>>

\* lines 68-77: psutil finds the pid as long as the child has not been waited
\* for, and raises NoSuchProcess afterwards
StatusSample(t) ==
    /\ th[t].pc = "u_sample"
    /\ LET p == registry[th[t].id] IN
       IF p = 0
       THEN Finish(t, "KeyError")
       ELSE IF proc[p] = "reaped"
            THEN Goto(t, "u_del")
            ELSE th' = [th EXCEPT ![t].pc = "done", ![t].res = "running", ![t].h = p]
    /\ UNCHANGED <<registry, proc, owner, dir>>

\* lines 78-80
StatusCleanup(t) ==
    /\ th[t].pc = "u_del"
    /\ LET i == th[t].id IN
       IF registry[i] = 0
       THEN Finish(t, "KeyError") /\ UNCHANGED registry
       ELSE registry' = [registry EXCEPT ![i] = 0] /\ Finish(t, "stopped")
    /\ UNCHANGED <<proc, owner, dir>>

\* ----------------------------------------------------------- create_server
\* lines 106-110: the name check comes before any look at the filesystem
CreateCall(t, i, n) ==
    /\ th[t].pc = "idle"
    /\ th' = [th EXCEPT ![t] =
                 IF InvalidTemplateName(n)
                 THEN [Idle EXCEPT !.pc = "done", !.op = "create", !.id = i, !.name = n,
                                   !.res = "InvalidInput"]
                 ELSE [Idle EXCEPT !.pc = "c_check", !.op = "create", !.id = i, !.name = n,
                                   !.follows = ProducedBy(i, n)]]
    /\ UNCHANGED <<registry, proc, owner, dir>>

\* lines 112-118 without the os.path.isdir test
CreateCheck_NoDirTest(t) ==
    /\ th[t].pc = "c_check"
    /\ IF ~TemplateIsFile(th[t].name) THEN Finish(t, "NotFound") ELSE Goto(t, "c_mkdir")
    /\ UNCHANGED <<registry, proc, owner, dir>>

\* lines 112-118
CreateCheck(t) ==
    /\ th[t].pc = "c_check"
    /\ IF dir[th[t].id].exists
       THEN Finish(t, "Conflict")
       ELSE IF ~TemplateIsFile(th[t].name)
            THEN Finish(t, "NotFound")
            ELSE Goto(t, "c_mkdir")
    /\ UNCHANGED <<registry, proc, owner, dir>>

\* lines 120-121, os.makedirs without exist_ok
CreateMakedirs(t) ==
    /\ th[t].pc = "c_mkdir"
    /\ LET i == th[t].id IN
       IF dir[i].exists
       THEN Finish(t, "FileExistsError") /\ UNCHANGED dir
       ELSE dir' = [dir EXCEPT ![i] = [NoDir EXCEPT !.exists = TRUE]] /\ Goto(t, "c_extract")
    /\ UNCHANGED <<registry, proc, owner>>

\* lines 123-132: extractall writes the archive's files (and remakes the
\* target directory should it be gone), then the executable is chmod-ed
CreateExtract(t) ==
    /\ th[t].pc = "c_extract"
    /\ dir' = [dir EXCEPT ![th[t].id] =
                  [@ EXCEPT !.exists = TRUE, !.full = TRUE, !.tmpl = th[t].name,
                            !.conf = IF th[t].name \in ArchivesWithConfig THEN "tmpl" ELSE @]]
    /\ Finish(t, "created")
    /\ UNCHANGED <<registry, proc, owner>>

\* lines 123-124 raise (unreadable or corrupt archive, disk full): no handler,
\* what has been made so far stays
CreateExtractFails(t) ==
    /\ th[t].pc = "c_extract"
    /\ Finish(t, "IOError")
    /\ UNCHANGED <<registry, proc, owner, dir>>

\* ----------------------------------------------------------- delete_server
DeleteCall(t, i) ==
    /\ th[t].pc = "idle"
    /\ th' = [th EXCEPT ![t] = [Idle EXCEPT !.pc = "d_in", !.op = "delete", !.id = i]]
    /\ UNCHANGED <<registry, proc, owner, dir>>

\* line 148, `server_id in _running_servers`
DeleteCheckIn(t) ==
    /\ th[t].pc = "d_in"
    /\ IF registry[th[t].id] = 0 THEN Goto(t, "d_rm") ELSE Goto(t, "d_poll")
    /\ UNCHANGED <<registry, proc, owner, dir>>

\* lines 148-150: a running instance is handed to stop_server
DeletePoll(t) ==
    /\ th[t].pc = "d_poll"
    /\ LET p == registry[th[t].id] IN
       IF p = 0
       THEN Finish(t, "KeyError") /\ UNCHANGED proc
       ELSE /\ proc' = Reap(p)
            /\ IF proc[p] = "running"
               THEN th' = [th EXCEPT ![t].pc = "p_in", ![t].wasRunning = TRUE]
               ELSE Goto(t, "d_rm")
    /\ UNCHANGED <<registry, owner, dir>>

\* lines 152-160 with the Registry entry dropped before NotFound is raised
DeleteRmtree_DropsEntry(t) ==
    /\ th[t].pc = "d_rm"
    /\ LET i == th[t].id IN
       IF ~dir[i].exists
       THEN /\ Finish(t, "NotFound")
            /\ registry' = [registry EXCEPT ![i] = 0]
            /\ UNCHANGED dir
       ELSE /\ dir' = [dir EXCEPT ![i] = NoDir]
            /\ Goto(t, "d_in2")
            /\ UNCHANGED registry
    /\ UNCHANGED <<proc, owner>>

\* rmtree of the servers root in place of the instance directory
DeleteRmtree_WholeRoot(t) ==
    /\ th[t].pc = "d_rm"
    /\ LET i == th[t].id IN
       IF ~dir[i].exists
       THEN Finish(t, "NotFound") /\ UNCHANGED dir
       ELSE dir' = [j \in DOMAIN dir |-> NoDir] /\ Goto(t, "d_in2")
    /\ UNCHANGED <<registry, proc, owner>>

\* lines 152-160, shutil.rmtree succeeds
DeleteRmtree(t) ==
    /\ th[t].pc = "d_rm"
    /\ LET i == th[t].id IN
       IF ~dir[i].exists
       THEN Finish(t, "NotFound") /\ UNCHANGED dir
       ELSE dir' = [dir EXCEPT ![i] = NoDir] /\ Goto(t, "d_in2")
    /\ UNCHANGED <<registry, proc, owner>>

\* line 160, shutil.rmtree raises (permissions, a busy file): no handler
DeleteRmtreeFails(t) ==
    /\ th[t].pc = "d_rm"
    /\ dir[th[t].id].exists
    /\ Finish(t, "OSError")
    /\ UNCHANGED <<registry, proc, owner, dir>>

\* line 163
DeleteCheckIn2(t) ==
    /\ th[t].pc = "d_in2"
    /\ IF registry[th[t].id] = 0 THEN Finish(t, "deleted") ELSE Goto(t, "d_del")
    /\ UNCHANGED <<registry, proc, owner, dir>>

\* lines 164-167
DeleteUnregister(t) ==
    /\ th[t].pc = "d_del"
    /\ LET i == th[t].id IN
       IF registry[i] = 0
       THEN Finish(t, "KeyError") /\ UNCHANGED registry
       ELSE registry' = [registry EXCEPT ![i] = 0] /\ Finish(t, "deleted")
    /\ UNCHANGED <<proc, owner, dir>>

\* --------------------------------------------------------- get_server_logs
\* Python's seq[k:] for any integer k: a negative k counts from the end
PySliceFrom(seq, k) ==
    LET len == Len(seq)
        start == IF k < 0
                 THEN (IF len + k < 0 THEN 0 ELSE len + k)
                 ELSE (IF k > len THEN len ELSE k)
    IN SubSeq(seq, start + 1, len)

\* line 91, log_lines[-lines:]
LastLines(seq, n) == PySliceFrom(seq, 0 - n)

\* os.path.exists(log_path)
LogExists(d) == d.exists /\ d.log

LogsCall(t, i, n) ==
    /\ th[t].pc = "idle"
    /\ th' = [th EXCEPT ![t] = [Idle EXCEPT !.pc = "l_exists", !.op = "logs", !.id = i, !.n = n]]
    /\ UNCHANGED <<registry, proc, owner, dir>>

\* lines 84-86
LogsExists(t) ==
    /\ th[t].pc = "l_exists"
    /\ IF LogExists(dir[th[t].id])
       THEN th' = [th EXCEPT ![t].pc = "l_read", ![t].follows = TRUE]
       ELSE Finish(t, "NotFound")
    /\ UNCHANGED <<registry, proc, owner, dir>>

\* lines 88-91 with an open() whose failure is no FileNotFoundError
LogsRead_OtherError(t) ==
    /\ th[t].pc = "l_read"
    /\ LET d == dir[th[t].id] IN
       IF LogExists(d)
       THEN th' = [th EXCEPT ![t].pc = "done", ![t].res = "logs",
                             ![t].out = LastLines(d.lines, th[t].n)]
       ELSE Finish(t, "OSError")
    /\ UNCHANGED <<registry, proc, owner, dir>>

\* lines 88-91: open() raises FileNotFoundError when the file is gone by now
LogsRead(t) ==
    /\ th[t].pc = "l_read"
    /\ LET d == dir[th[t].id] IN
       IF LogExists(d)
       THEN th' = [th EXCEPT ![t].pc = "done", ![t].res = "logs",
                             ![t].out = LastLines(d.lines, th[t].n)]
       ELSE Finish(t, "NotFound")
    /\ UNCHANGED <<registry, proc, owner, dir>>

\* ---------------------------------------------------- update_server_config
\* lines 184-185
UpdateCall(t, i, c) ==
    /\ th[t].pc = "idle"
    /\ th' = [th EXCEPT ![t] =
                 IF c \notin Configs
                 THEN [Idle EXCEPT !.pc = "done", !.op = "update", !.id = i, !.cfg = c,
                                   !.res = "InvalidInput"]
                 ELSE [Idle EXCEPT !.pc = "g_check", !.op = "update", !.id = i, !.cfg = c]]
    /\ UNCHANGED <<registry, proc, owner, dir>>

\* lines 187-194
UpdateCheck(t) ==
    /\ th[t].pc = "g_check"
    /\ LET d == dir[th[t].id] IN
       IF d.exists /\ d.conf # "none" THEN Goto(t, "g_open") ELSE Finish(t, "NotFound")
    /\ UNCHANGED <<registry, proc, owner, dir>>

\* line 200, open(conf_path, 'w'): the file is truncated, or made when the
\* directory holds none; without the directory open() raises, and line 205
\* turns that into RuntimeError
UpdateOpen(t) ==
    /\ th[t].pc = "g_open"
    /\ LET i == th[t].id IN
       IF ~dir[i].exists
       THEN Finish(t, "RuntimeError") /\ UNCHANGED dir
       ELSE /\ dir' = [dir EXCEPT ![i].conf = "empty", ![i].open = @ \cup {t}]
            /\ Goto(t, "g_write")
    /\ UNCHANGED <<registry, proc, owner>>

\* what a write through t's descriptor leaves in the directory: nothing once
\* rmtree has unlinked the file
Written(t, content) ==
    LET i == th[t].id IN
    IF t \in dir[i].open
    THEN [dir EXCEPT ![i].conf = content, ![i].open = @ \ {t}]
    ELSE dir

\* line 201, json.dump: a first part of the text is flushed to the file
UpdateWritePart(t) ==
    /\ th[t].pc = "g_write"
    /\ t \in dir[th[t].id].open
    /\ dir[th[t].id].conf # Partial(th[t].cfg)
    /\ dir' = [dir EXCEPT ![th[t].id].conf = Partial(th[t].cfg)]
    /\ UNCHANGED <<registry, proc, owner, th>>

\* lines 200-207: the rest is written, the file closed
UpdateWrite(t) ==
    /\ th[t].pc = "g_write"
    /\ dir' = Written(t, th[t].cfg)
    /\ Finish(t, "config_updated")
    /\ UNCHANGED <<registry, proc, owner>>

\* lines 201-205: a write raises (disk full, I/O error); the file stays as
\* far as it was written
UpdateWriteFails(t) ==
    /\ th[t].pc = "g_write"
    /\ dir' = Written(t, dir[th[t].id].conf)
    /\ Finish(t, "RuntimeError")
    /\ UNCHANGED <<registry, proc, owner>>

\* ------------------------------------------------------------- environment
\* a child process ends, on its own or in answer to SIGTERM
ProcExit(p) ==
    /\ proc[p] = "running"
    /\ proc' = [proc EXCEPT ![p] = "exited"]
    /\ UNCHANGED <<registry, owner, dir, th>>

\* the transport layer has sent the response; the thread takes the next request
Return(t) ==
    /\ th[t].pc = "done"
    /\ th' = [th EXCEPT ![t] = Idle]
    /\ UNCHANGED <<registry, proc, owner, dir>>

Next ==
    \/ \E t \in Threads, i \in Ids : StartCall(t, i)
    \/ \E t \in Threads : StartCheckIn(t)
    \/ \E t \in Threads : StartPoll(t)
    \/ \E t \in Threads : StartDirs(t)
    \/ \E t \in Threads : StartSpawn(t)
    \/ \E t \in Threads : StartRegister(t)
    \/ \E t \in Threads, i \in Ids : StopCall(t, i)
    \/ \E t \in Threads : StopCheckIn(t)
    \/ \E t \in Threads : StopPoll(t)
    \/ \E t \in Threads : StopTerminate(t)
    \/ \E t \in Threads : StopWait(t)
    \/ \E t \in Threads : StopWaitTimeout(t)
    \/ \E t \in Threads : StopDelete(t)
    \/ \E t \in Threads, i \in Ids : StatusCall(t, i)
    \/ \E t \in Threads : StatusCheckIn(t)
    \/ \E t \in Threads : StatusPoll(t)
    \/ \E t \in Threads : StatusSample(t)
    \/ \E t \in Threads : StatusCleanup(t)
    \/ \E t \in Threads, i \in Ids, n \in Names : CreateCall(t, i, n)
    \/ \E t \in Threads : CreateCheck(t)
    \/ \E t \in Threads : CreateMakedirs(t)
    \/ \E t \in Threads : CreateExtract(t)
    \/ \E t \in Threads : CreateExtractFails(t)
    \/ \E t \in Threads, i \in Ids : DeleteCall(t, i)
    \/ \E t \in Threads : DeleteCheckIn(t)
    \/ \E t \in Threads : DeletePoll(t)
    \/ \E t \in Threads : DeleteRmtree(t)
    \/ \E t \in Threads : DeleteRmtreeFails(t)
    \/ \E t \in Threads : DeleteCheckIn2(t)
    \/ \E t \in Threads : DeleteUnregister(t)
    \/ \E p \in Pids : ProcExit(p)
    \/ \E t \in Threads : Return(t)

Spec == Init /\ [][Next]_vars

\* ------------------------------------------------- files without processes
\* The daemon after a restart: the Registry is empty, no process is its own,
\* and the servers root holds what earlier runs left.
LeftDirs ==
    {NoDir} \cup
    {[NoDir EXCEPT !.exists = TRUE, !.tmpl = <<"a">>, !.full = TRUE, !.log = TRUE,
                   !.lines = l, !.conf = c] : l \in LogContents, c \in {"tmpl", "c1"}}

InitFiles ==
    /\ registry = [i \in Ids |-> 0]
    /\ proc = [p \in Pids |-> "none"]
    /\ owner = [p \in Pids |-> 0]
    /\ dir \in [Ids -> LeftDirs]
    /\ th = [t \in Threads |-> Idle]

NextFiles ==
    \/ \E t \in Threads, i \in Ids, n \in LineCounts : LogsCall(t, i, n)
    \/ \E t \in Threads : LogsExists(t)
    \/ \E t \in Threads : LogsRead(t)
    \/ \E t \in Threads, i \in Ids, c \in Payloads : UpdateCall(t, i, c)
    \/ \E t \in Threads : UpdateCheck(t)
    \/ \E t \in Threads : UpdateOpen(t)
    \/ \E t \in Threads : UpdateWritePart(t)
    \/ \E t \in Threads : UpdateWrite(t)
    \/ \E t \in Threads : UpdateWriteFails(t)
    \/ \E t \in Threads, i \in Ids, n \in TemplateArchives : CreateCall(t, i, n)
    \/ \E t \in Threads : CreateCheck(t)
    \/ \E t \in Threads : CreateMakedirs(t)
    \/ \E t \in Threads : CreateExtract(t)
    \/ \E t \in Threads : CreateExtractFails(t)
    \/ \E t \in Threads, i \in Ids : DeleteCall(t, i)
    \/ \E t \in Threads : DeleteCheckIn(t)
    \/ \E t \in Threads : DeleteRmtree(t)
    \/ \E t \in Threads : DeleteRmtreeFails(t)
    \/ \E t \in Threads : DeleteCheckIn2(t)
    \/ \E t \in Threads : Return(t)

SpecFiles == InitFiles /\ [][NextFiles]_vars

\* ------------------------------------------------------------- several ids
\* The same handlers over more than one id, with one archive, one line count
\* and one payload. Every thread serves one request, from a state in which
\* earlier requests have left each id absent, created, running, or with the
\* entry of a process that has exited.
FrameIds == 1..(NumIds + 1)
Conditions == {"absent", "created", "running", "stale"}
HasProcess(c) == c \in {"running", "stale"}

FrameDir(c) ==
    IF c = "absent"
    THEN NoDir
    ELSE [NoDir EXCEPT !.exists = TRUE, !.tmpl = <<"a">>, !.full = TRUE,
                       !.conf = "tmpl", !.log = HasProcess(c)]

InitFrame ==
    \E cond \in [FrameIds -> Conditions], pid \in [FrameIds -> Pids \cup {0}] :
        /\ \A i \in FrameIds : (pid[i] # 0) <=> HasProcess(cond[i])
        /\ \A i, j \in FrameIds : (pid[i] = pid[j] /\ pid[i] # 0) => i = j
        /\ {pid[i] : i \in FrameIds} \ {0}
              = 1..Cardinality({i \in FrameIds : HasProcess(cond[i])})
        /\ registry = pid
        /\ owner = [p \in Pids |->
                      IF \E i \in FrameIds : pid[i] = p
                      THEN CHOOSE i \in FrameIds : pid[i] = p
                      ELSE 0]
        /\ proc = [p \in Pids |->
                     IF \E i \in FrameIds : pid[i] = p
                     THEN (IF cond[CHOOSE i \in FrameIds : pid[i] = p] = "running"
                           THEN "running" ELSE "exited")
                     ELSE "none"]
        /\ dir = [i \in FrameIds |-> FrameDir(cond[i])]
        /\ th = [t \in Threads |-> Idle]

NextFrame ==
    \/ \E t \in Threads, i \in FrameIds : StartCall(t, i)
    \/ \E t \in Threads : StartCheckIn(t)
    \/ \E t \in Threads : StartPoll(t)
    \/ \E t \in Threads : StartDirs(t)
    \/ \E t \in Threads : StartSpawn(t)
    \/ \E t \in Threads : StartRegister(t)
    \/ \E t \in Threads, i \in FrameIds : StopCall(t, i)
    \/ \E t \in Threads : StopCheckIn(t)
    \/ \E t \in Threads : StopPoll(t)
    \/ \E t \in Threads : StopTerminate(t)
    \/ \E t \in Threads : StopWait(t)
    \/ \E t \in Threads : StopWaitTimeout(t)
    \/ \E t \in Threads : StopDelete(t)
    \/ \E t \in Threads, i \in FrameIds : StatusCall(t, i)
    \/ \E t \in Threads : StatusCheckIn(t)
    \/ \E t \in Threads : StatusPoll(t)
    \/ \E t \in Threads : StatusSample(t)
    \/ \E t \in Threads : StatusCleanup(t)
    \/ \E t \in Threads, i \in FrameIds : LogsCall(t, i, 1)
    \/ \E t \in Threads : LogsExists(t)
    \/ \E t \in Threads : LogsRead(t)
    \/ \E t \in Threads, i \in FrameIds : CreateCall(t, i, <<"a">>)
    \/ \E t \in Threads : CreateCheck(t)
    \/ \E t \in Threads : CreateMakedirs(t)
    \/ \E t \in Threads : CreateExtract(t)
    \/ \E t \in Threads : CreateExtractFails(t)
    \/ \E t \in Threads, i \in FrameIds : DeleteCall(t, i)
    \/ \E t \in Threads : DeleteCheckIn(t)
    \/ \E t \in Threads : DeletePoll(t)
    \/ \E t \in Threads : DeleteRmtree(t)
    \/ \E t \in Threads : DeleteRmtreeFails(t)
    \/ \E t \in Threads : DeleteCheckIn2(t)
    \/ \E t \in Threads : DeleteUnregister(t)
    \/ \E t \in Threads, i \in FrameIds : UpdateCall(t, i, "c1")
    \/ \E t \in Threads : UpdateCheck(t)
    \/ \E t \in Threads : UpdateOpen(t)
    \/ \E t \in Threads : UpdateWritePart(t)
    \/ \E t \in Threads : UpdateWrite(t)
    \/ \E t \in Threads : UpdateWriteFails(t)
    \/ \E p \in Pids : ProcExit(p)

SpecFrame == InitFrame /\ [][NextFrame]_vars

\* ------------------------------------------------------------------ claims
Done(t, op) == th[t].pc = "done" /\ th[t].op = op

\* C1: two start calls for the same id that both began while the id had never
\* been started, with its directory and executable in place, end with one
\* {started} and one Conflict; they never both succeed.
C1_ExactlyOneStartWins ==
    \A t1, t2 \in Threads :
        ( /\ t1 # t2
          /\ Done(t1, "start") /\ Done(t2, "start")
          /\ th[t1].id = th[t2].id
          /\ th[t1].fresh /\ th[t2].fresh
          /\ ExecutableExists(dir[th[t1].id]) )
        => {th[t1].res, th[t2].res} = {"started", "Conflict"}

\* C2: in every reachable state at most one process spawned for an id is alive.
C2_AtMostOneLiveProcess ==
    \A i \in Ids : Cardinality(LiveProcs(i)) <= 1

\* C3: a stop that has sent the termination request ends with the instance
\* stopped: when it finishes, the process is dead and the Registry holds no
\* entry for the id (a timeout escalates to a forced kill).
C3_StopEndsStopped ==
    [][\A t \in Threads :
          (th[t].op = "stop" /\ th[t].pc \in {"p_wait", "p_del"} /\ th'[t].pc = "done")
          => ( /\ th'[t].res = "stopped"
               /\ proc'[th[t].h] # "running"
               /\ registry'[th[t].id] = 0 )]_vars

\* C4: a stop called for an id without a live Registry entry, the id still
\* without one at each step of its liveness check, raises nothing but
\* NotRunning and leaves the Registry unchanged.
C4_StopNotRunning ==
    [][\A t \in Threads :
          ( /\ th[t].op = "stop" /\ th[t].pc \in {"p_in", "p_poll"} /\ th[t].fresh
            /\ th'[t] # th[t]
            /\ ~LiveEntry(th[t].id) )
          => ( /\ registry' = registry
               /\ th'[t].pc = "done" => th'[t].res = "NotRunning" )]_vars

\* C5: status always returns a result, running or stopped, and never raises.
C5_StatusNeverRaises ==
    \A t \in Threads : Done(t, "status") => th[t].res \in {"running", "stopped"}

\* C6: when status returns Stopped, the Registry holds no entry for the id.
C6_StoppedMeansNoEntry ==
    [][\A t \in Threads :
          ( /\ th[t].op = "status" /\ th[t].pc # "done"
            /\ th'[t].pc = "done" /\ th'[t].res = "stopped" )
          => registry'[th[t].id] = 0]_vars

\* what get_server_status answers in the current state
ReportsStopped(i) == ~LiveEntry(i)

\* C7: when a delete that found the instance running returns {deleted} and
\* the directory it removed has not been created again, status reports Stopped
\* and no process spawned for the id is alive.
C7_DeleteStopsFirst ==
    [][\A t \in Threads :
          ( /\ th[t].op = "delete" /\ th[t].wasRunning /\ th[t].pc # "done"
            /\ th'[t].pc = "done" /\ th'[t].res = "deleted"
            /\ ~dir'[th[t].id].exists )
          => ( /\ ReportsStopped(th[t].id)'
               /\ LiveProcs(th[t].id)' = {} )]_vars

\* C8: delete never has the Registry entry cleared while the instance
\* directory still exists.
C8_EntryClearedAfterRmtree ==
    \A t \in Threads :
        ( /\ th[t].op = "delete" /\ th[t].wasRunning
          /\ th[t].pc \in {"d_rm", "d_in2", "d_del", "done"}
          /\ th[t].res \in {"none", "OSError", "deleted"} )
        => ~dir[th[t].id].exists

\* a ".." segment or a "/" in the name
HasParentSegment(name) == \E k \in 1..Len(Split(name)) : Split(name)[k] = <<".", ".">>
HasSeparator(name) == \E k \in 1..Len(name) : name[k] = "/"

\* C9: create with a template name that holds a parent-directory segment or a
\* path separator fails with InvalidInput, whatever the directory and the
\* templates root hold, and creates nothing.
C9_TraversalRejected ==
    [][\A t \in Threads :
          ( /\ th[t].pc = "idle" /\ th'[t].op = "create"
            /\ (HasParentSegment(th'[t].name) \/ HasSeparator(th'[t].name)) )
          => ( /\ th'[t].pc = "done" /\ th'[t].res = "InvalidInput"
               /\ dir' = dir )]_vars

\* C9 witness: the rejected name resolves to an existing archive and the
\* instance directory exists, so neither NotFound nor Conflict took precedence
C9_Witness ==
    \E t \in Threads :
        /\ Done(t, "create") /\ th[t].res = "InvalidInput"
        /\ HasSeparator(th[t].name)
        /\ TemplateIsFile(th[t].name)
        /\ dir[th[t].id].exists

\* C10: a create(id, t) whose existence check finds the directory that a
\* successful create(id, t) has produced fails with Conflict and leaves the
\* directory as it is.
C10_SecondCreateConflicts ==
    [][\A t \in Threads :
          ( /\ th[t].op = "create" /\ th[t].pc = "c_check"
            /\ th'[t] # th[t]
            /\ ProducedBy(th[t].id, th[t].name) )
          => ( /\ th'[t].pc = "done" /\ th'[t].res = "Conflict"
               /\ dir' = dir )]_vars

\* C10 witness: a create called after a successful create of the same id and
\* template has ended with Conflict, the directory of the first still in place
C10_Witness ==
    \E t \in Threads :
        /\ Done(t, "create") /\ th[t].res = "Conflict"
        /\ th[t].follows
        /\ ProducedBy(th[t].id, th[t].name)

\* C11: a create whose archive extraction fails ends with the instance
\* directory absent: nothing half-made stays at the final path.
C11_FailedExtractLeavesNothing ==
    [][\A t \in Threads :
          ( /\ th[t].op = "create" /\ th[t].pc = "c_extract"
            /\ th'[t].pc = "done" /\ th'[t].res = "IOError" )
          => ~dir'[th[t].id].exists]_vars

\* the configuration file holds one whole document
CompleteConfig(c) == c \in {"tmpl"} \cup Configs

\* C12: the configuration file is replaced atomically: while the instance
\* directory stays, a file that holds a whole document holds a whole document
\* after every step, never an empty or truncated text.
C12_AtomicReplace ==
    [][\A i \in Ids :
          (dir[i].exists /\ dir'[i].exists /\ CompleteConfig(dir[i].conf))
          => CompleteConfig(dir'[i].conf)]_vars

\* C13: logs(id, n) on an existing log of L lines returns the last n lines
\* in order when L > n and the whole file when L <= n, so at most n lines.
C13_LastLines ==
    [][\A t \in Threads :
          (th[t].pc = "l_read" /\ th'[t].pc = "done" /\ th'[t].res = "logs")
          => LET all == dir[th[t].id].lines
                 L == Len(all)
                 n == th[t].n
             IN th'[t].out = IF L > n THEN SubSeq(all, L - n + 1, L) ELSE all]_vars

\* thread t, running start_server, takes a step
StartStep(t) == th[t].op = "start" /\ th'[t] # th[t]

\* C14: start(id) fails with Conflict exactly when, as its check of the
\* Registry ends, a live process is registered for id; past the entry of a
\* process that has exited, and with the executable present, it spawns a new
\* process, ends "started" and leaves the Registry entry on the new process.
C14_ConflictIffLive ==
    [][\A t \in Threads : StartStep(t) =>
          LET i == th[t].id IN
          /\ (th'[t].res = "Conflict") => th[t].pc \in {"s_in", "s_poll"}
          /\ (th[t].pc \in {"s_in", "s_poll"} /\ th'[t].pc \in {"s_dirs", "done"})
             => ((th'[t].res = "Conflict") <=> LiveEntry(i))
          /\ (th[t].pc = "s_poll" /\ registry[i] # 0 /\ ~LiveEntry(i))
             => th'[t].pc = "s_dirs"
          /\ (th[t].pc = "s_dirs" /\ ExecutableExists(dir[i]))
             => th'[t].pc = "s_spawn"
          /\ (th[t].pc = "s_spawn" /\ ExecutableExists(dir[i]))
             => /\ th'[t].pc = "s_reg"
                /\ proc[th'[t].h] = "none" /\ proc'[th'[t].h] = "running"
          /\ (th[t].pc = "s_reg")
             => th'[t].res = "started" /\ registry'[i] = th[t].h]_vars

\* a start that went past the entry of an exited process has ended "started"
\* with the Registry entry on the process it spawned
C14_Witness ==
    \E t \in Threads :
        /\ Done(t, "start") /\ th[t].res = "started" /\ th[t].follows
        /\ registry[th[t].id] = th[t].h
        /\ \E p \in Spawned(th[t].id) : p # th[t].h /\ proc[p] = "reaped"

C16_LogsDegradeGracefully ==
    \A t \in Threads : Done(t, "logs") => th[t].res \in {"logs", "NotFound"}

\* a logs call whose existence check found the file has ended with NotFound
C16_Witness ==
    \E t \in Threads : Done(t, "logs") /\ th[t].res = "NotFound" /\ th[t].follows

\* C17: updateConfig never creates a configuration file: a step leaves a
\* conf.json in an instance directory that held none only when it is the
\* extraction of an archive by create.
C17_UpdateNeverCreates ==
    [][\A i \in Ids :
          (dir[i].conf = "none" /\ dir'[i].conf # "none")
          => \E t \in Threads : /\ th[t].op = "create" /\ th[t].id = i
                                /\ th[t].pc = "c_extract" /\ th'[t].pc = "done"]_vars

\* C18: a delete that fails with NotFound has had no effect on the Registry
\* entry or the process of its id: it has not taken the instance through
\* stop, also when it found the instance running.
C18_NotFoundHasNoEffect ==
    \A t \in Threads :
        (Done(t, "delete") /\ th[t].res = "NotFound") => ~th[t].wasRunning

\* C18 as amended: a delete that has not found the instance running changes
\* neither the Registry nor the directories nor which processes run, up to
\* and including its NotFound; a delete that found it running fails with
\* NotFound only after the process it waited for has exited, and the step
\* that reports NotFound changes nothing.
C18_NotFoundAfterStopOnly ==
    [][\A t \in Threads : (th'[t].op = "delete" /\ th'[t] # th[t]) =>
          /\ ( /\ ~th'[t].wasRunning
               /\ th'[t].pc \in {"d_in", "d_poll", "d_rm", "done"}
               /\ th'[t].res \in {"none", "NotFound"} )
             => /\ registry' = registry /\ dir' = dir /\ owner' = owner
                /\ \A p \in Pids : (proc'[p] = "running") <=> (proc[p] = "running")
          /\ (th'[t].res = "NotFound")
             => /\ registry' = registry /\ dir' = dir /\ proc' = proc
                /\ th[t].wasRunning => /\ th[t].h # 0
                                       /\ proc[th[t].h] # "running"]_vars

\* a delete that found the instance running has stopped it and then failed
\* with NotFound
C18_Witness ==
    \E t \in Threads :
        /\ Done(t, "delete") /\ th[t].res = "NotFound" /\ th[t].wasRunning
        /\ proc[th[t].h] = "reaped"

\* thread u, in stop or in the stop of a delete, has removed the Registry
\* entry of the process it waited for
HasUnregistered(u) ==
    /\ th[u].op \in {"stop", "delete"} /\ th[u].h # 0
    /\ \/ th[u].pc \in {"d_rm", "d_in2", "d_del"}
       \/ th[u].pc = "done" /\ th[u].res \in {"stopped", "deleted", "NotFound", "OSError"}

\* C19: of two stop calls (or a stop and a delete) that stop the same running
\* process, the one that comes second to the removal of the Registry entry
\* does not end with the error of removing an entry that is gone.
C19_SecondRemovalIsQuiet ==
    [][\A t \in Threads :
          ( /\ th[t].pc = "p_del" /\ th'[t].pc = "done"
            /\ \E u \in Threads \ {t} :
                   HasUnregistered(u) /\ th[u].id = th[t].id /\ th[u].h = th[t].h )
          => th'[t].res # "KeyError"]_vars

\* C20: no orphaned process: every running process the daemon spawned for an
\* id is the one the Registry entry of that id refers to, from the moment
\* the start that spawned it has registered it.
C20_NoOrphanedProcess ==
    \A p \in Pids :
        (proc[p] = "running" /\ owner[p] # 0)
        => \/ registry[owner[p]] = p
           \/ \E t \in Threads : th[t].op = "start" /\ th[t].pc = "s_reg" /\ th[t].h = p

====
